---- MODULE Spec2Model ----
(***************************************************************************)
(* Recursive discovery-and-sync engine of the BLS mirror.                  *)
(*                                                                         *)
(* Two syncers share the algorithm:                                        *)
(*   "bls"    BLSDataSyncer          part1_data_sourcing/bls_data_sync.py  *)
(*   "lambda" EnhancedBLSDataSyncer  part4_infrastructure/lambda_functions *)
(*                                   /data_processor.py                    *)
(*                                                                         *)
(* Strings are sequences of lexical tokens: a path separator "/", a stem   *)
(* ("a", "overview"), an extension (".txt"), the dot segments "." and      *)
(* "..".  URLs are token sequences relative to base_url, so the root       *)
(* listing is the empty sequence.                                          *)
(***************************************************************************)
EXTENDS Integers, Sequences, FiniteSets, TLC

VARIABLES
    syncer,                  \* "bls" or "lambda": which class runs
    site,                    \* index into Sites: the remote server
    max_depth,               \* self.max_depth
    max_workers,             \* self.max_workers
    processed_urls,          \* self.processed_urls
    discovered_directories,  \* self.discovered_directories (lambda)
    calls,                   \* activations of discover_files_recursive
    expired,                 \* time.time() - start_time >= max_execution_time - 60
    failures,                \* listing fetches that failed in this discovery
    passes,                  \* per URL: calls that got past the visited check
    fetched,                 \* [url, depth, call] of every listing GET issued
    main,                    \* position of the top-level caller
    files,                   \* the list discover_files returned
    store,                   \* the bucket: S3 key -> bytes of the object
    idx,                     \* position of the file loop in files
    local,                   \* bytes written to local_path by the download
    successful_uploads,      \* counters of the running pass
    skipped_files,
    failed_downloads,
    failed_uploads,
    processed_files,
    status,                  \* per position of files: how the pass left it
    result,                  \* the tuple the pass returned
    asked,                   \* outcomes of the store requests of the last decision
    clean,                   \* no request of this run has failed so far
    prev,                    \* how the previous run ended, "none" before it
    found,                   \* urls of the files gathered when the budget ran out
    prev_files,              \* (name, url) pairs a complete clean previous run found
    response,                \* what lambda_handler returned
    store0,                  \* the bucket as the running pass found it
    population               \* the running call of fetch_population_data

confVars == <<syncer, site, max_depth, max_workers>>
syncVars == <<store, idx, local, successful_uploads, skipped_files,
              failed_downloads, failed_uploads, processed_files, status,
              result, asked, prev>>
histVars == <<found, prev_files, response, store0, population>>

\* ------------------------------------------------------------------ bounds
\* max_depth is drawn from 0..MaxDepthCfg, capped at the height of the site;
\* max_workers from 1..MaxWorkersCfg
MaxDepthCfg == 2
MaxWorkersCfg == 2
\* listing fetches that may fail in one discovery
MaxFetchFailures == 1

\* ------------------------------------------------------------ string model
Min(a, b) == IF a < b THEN a ELSE b

Last(s) == s[Len(s)]

\* str.endswith('/')
EndsWithSlash(s) == Len(s) > 0 /\ Last(s) = "/"

\* str.rstrip('/')
RECURSIVE rstrip_slash(_)
rstrip_slash(s) ==
    IF EndsWithSlash(s) THEN rstrip_slash(SubSeq(s, 1, Len(s) - 1)) ELSE s

\* str.replace('\\', '/')
replace_backslash(s) == [i \in DOMAIN s |-> IF s[i] = "\\" THEN "/" ELSE s[i]]

\* position of the last "/" of s, 0 when there is none
RECURSIVE LastSlash(_)
LastSlash(s) ==
    IF s = <<>> THEN 0
    ELSE IF Last(s) = "/" THEN Len(s)
    ELSE LastSlash(SubSeq(s, 1, Len(s) - 1))

\* str.split('/')[-1]
LastSegment(s) == SubSeq(s, LastSlash(s) + 1, Len(s))

\* str.split('/'): the segments of s, each a token sequence
RECURSIVE Split(_)
Split(s) ==
    IF LastSlash(s) = 0 THEN <<s>>
    ELSE Append(Split(SubSeq(s, 1, LastSlash(s) - 1)), LastSegment(s))

\* '/'.join(segs)
RECURSIVE Join(_)
Join(segs) ==
    IF Len(segs) = 0 THEN <<>>
    ELSE IF Len(segs) = 1 THEN segs[1]
    ELSE Join(SubSeq(segs, 1, Len(segs) - 1)) \o <<"/">> \o Last(segs)

\* tokens that contain the character '.'
ExtTokens == {".txt", ".csv", ".data", ".xlsx", ".xls", ".json", ".xml", ".tsv",
              ".series", ".notes", ".TXT", ".html", ".gif", ".0", ".Current",
              ".current"}
DotTokens == ExtTokens \cup {".", ".."}

\* str.lower() of one token
LowerToken(t) ==
    IF t = ".TXT" THEN ".txt"
    ELSE IF t = "X" THEN "x"
    ELSE IF t = ".Current" THEN ".current"
    ELSE IF t = "README" THEN "readme"
    ELSE t
lower(s) == [i \in DOMAIN s |-> LowerToken(s[i])]

\* tokens that spell an absolute URL prefix: base_url itself, another host
BaseToken == "https://download.bls.gov/pub/time.series/"
OtherToken == "https://www.bls.gov/"
StartsWithHttp(s) == Len(s) > 0 /\ s[1] \in {BaseToken, OtherToken}
StartsWithBase(s) == Len(s) > 0 /\ s[1] = BaseToken

\* one-letter alphabetic stems (len(href.rstrip('/')) == 1 and isalpha())
SingleLetters == {"a", "b", "c", "d", "f", "g", "x", "y"}

\* os.path.join(a, b): b alone when it is absolute
path_join(a, b) ==
    IF Len(b) > 0 /\ b[1] = "/" THEN b
    ELSE IF EndsWithSlash(a) THEN a \o b
    ELSE a \o <<"/">> \o b

\* RFC 3986 remove_dot_segments over a segment list; a ".." with nothing
\* left to pop stays in the output, marking a URL above base_url
RECURSIVE RemoveDots(_, _)
RemoveDots(segs, out) ==
    IF segs = <<>> THEN out
    ELSE LET s == Head(segs)
             rest == Tail(segs)
             popped == IF out # <<>> /\ Last(out) # <<"..">>
                       THEN SubSeq(out, 1, Len(out) - 1)
                       ELSE Append(out, <<"..">>)
         IN IF s = <<".">> THEN
                RemoveDots(rest, IF rest = <<>> THEN Append(out, <<>>) ELSE out)
            ELSE IF s = <<"..">> THEN
                RemoveDots(rest, IF rest = <<>> THEN Append(popped, <<>>) ELSE popped)
            ELSE RemoveDots(rest, Append(out, s))

\* urllib.parse.urljoin(url, href), url relative to base_url
urljoin(url, href) ==
    IF StartsWithBase(href) THEN Tail(href)
    ELSE IF StartsWithHttp(href) \/ (Len(href) > 0 /\ href[1] = "/") THEN href
    ELSE CHOOSE joined \in
             {Join(merged) : merged \in
                 {RemoveDots(SubSeq(base, 1, Len(base) - 1) \o rel, <<>>) :
                     base \in {Split(url)}, rel \in {Split(href)}}} : TRUE

\* ------------------------------------------------------------ link classifier
\* is_valid_file: bls_data_sync.py 94-112, data_processor.py 170-189
valid_extensions ==
    IF syncer = "bls"
    THEN {".txt", ".csv", ".data", ".xlsx", ".xls", ".json", ".xml", ".tsv"}
    ELSE {".txt", ".csv", ".data", ".xlsx", ".xls", ".json", ".xml", ".tsv",
          ".series", ".notes"}

skip_literals ==
    IF syncer = "bls"
    THEN {<<"..", "/">>, <<"/">>, <<".", "/">>, <<".">>}
    ELSE {<<"..", "/">>, <<"/">>, <<".", "/">>, <<".">>, <<>>}

\* any(pattern in href_lower for pattern in ['pr.data', 'pr.series', 'pr.notes'])
HasPrPattern(s) ==
    \E i \in 1..(Len(s) - 1) :
        s[i] = "pr" /\ s[i + 1] \in {".data", ".series", ".notes"}

is_external(href) == StartsWithHttp(href) /\ ~StartsWithBase(href)

is_valid_file(href) ==
    IF href \in skip_literals THEN FALSE
    ELSE IF syncer = "lambda" /\ is_external(href) THEN FALSE
    ELSE \/ (Len(href) > 0 /\ Last(lower(href)) \in valid_extensions)
         \/ (syncer = "lambda" /\ HasPrPattern(lower(href)))

\* is_valid_directory: bls_data_sync.py 114-136, data_processor.py 191-207
is_valid_directory(href) ==
    IF href \in skip_literals THEN FALSE
    ELSE IF is_external(href) THEN FALSE
    ELSE IF syncer = "bls" THEN
        \/ EndsWithSlash(href)
        \/ ((\A i \in DOMAIN LastSegment(href) : LastSegment(href)[i] \notin DotTokens)
            /\ href # <<>>)
        \/ LastSegment(href) \in {<<"data">>, <<"series">>, <<"time">>}
    ELSE
        \/ EndsWithSlash(href)
        \/ (Len(rstrip_slash(href)) = 1 /\ rstrip_slash(href)[1] \in SingleLetters)
        \/ rstrip_slash(href) \in {<<"data">>, <<"series">>, <<"time">>, <<"Current">>}

\* ------------------------------------------------------------ remote server
\* A site maps each directory URL to the hrefs of its listing, in page order,
\* and each file URL to its bytes.  A URL in neither map answers 404.
\* height is the length of the longest chain of directory links from the
\* root (MaxDepthCfg where links form a cycle): a run with a larger max_depth
\* repeats the run with max_depth = height.
Site1 ==  \* the scenario of the specification: a/ and overview.txt, a/a.txt
    [dirs |-> (<<>> :> << <<"a", "/">>, <<"overview", ".txt">> >>)
              @@ (<<"a", "/">> :> << <<"a", ".txt">> >>),
     bytes |-> (<<"overview", ".txt">> :> "v1")
              @@ (<<"a", "/", "a", ".txt">> :> "v2"),
     stale |-> {<<"overview", ".txt">>},
     height |-> 1]

Site2 ==  \* one listing links the same directory twice
    [dirs |-> (<<>> :> << <<"a", "/">>, <<"a", "/">> >>)
              @@ (<<"a", "/">> :> << <<"x", ".txt">> >>),
     bytes |-> (<<"a", "/", "x", ".txt">> :> "v1"),
     stale |-> {<<"a", "/", "x", ".txt">>},
     height |-> 1]

Site3 ==  \* a/ and b/, explored concurrently, both link c/
    [dirs |-> (<<>> :> << <<"a", "/">>, <<"b", "/">> >>)
              @@ (<<"a", "/">> :> << <<"..", "/", "c", "/">> >>)
              @@ (<<"b", "/">> :> << <<"..", "/", "c", "/">> >>)
              @@ (<<"c", "/">> :> << <<"f", ".txt">> >>),
     bytes |-> (<<"c", "/", "f", ".txt">> :> "v1"),
     stale |-> {<<"a", "/", "..", "/", "c", "/", "f", ".txt">>},
     height |-> 2]

Site4 ==  \* cycles: a/b/ links back to a/ and to the root, a/ links itself
    [dirs |-> (<<>> :> << <<"a", "/">>, <<"r", ".csv">> >>)
              @@ (<<"a", "/">> :> << <<"..", "/", "a", "/">>, <<"b", "/">> >>)
              @@ (<<"a", "/", "b", "/">> :>
                    << <<"..", "/", "..", "/">>, <<"y", ".txt">> >>),
     bytes |-> (<<"r", ".csv">> :> "v1")
              @@ (<<"a", "/", "b", "/", "y", ".txt">> :> "v2"),
     stale |-> {<<"r", ".csv">>},
     height |-> MaxDepthCfg]

Site5 ==  \* a chain deeper than every configured max_depth, a file per level
    [dirs |-> (<<>> :> << <<"d", "/">> >>)
              @@ (<<"d", "/">> :> << <<"f", ".txt">>, <<"d", "/">> >>)
              @@ (<<"d", "/", "d", "/">> :> << <<"f", ".txt">>, <<"d", "/">> >>)
              @@ (<<"d", "/", "d", "/", "d", "/">> :>
                    << <<"f", ".txt">>, <<"d", "/">> >>)
              @@ (<<"d", "/", "d", "/", "d", "/", "d", "/">> :>
                    << <<"f", ".txt">>, <<"d", "/">> >>),
     bytes |-> (<<"d", "/", "f", ".txt">> :> "v1")
              @@ (<<"d", "/", "d", "/", "f", ".txt">> :> "v2")
              @@ (<<"d", "/", "d", "/", "d", "/", "f", ".txt">> :> "v1")
              @@ (<<"d", "/", "d", "/", "d", "/", "d", "/", "f", ".txt">> :> "v2"),
     stale |-> {<<"d", "/", "f", ".txt">>},
     height |-> 5]

Site6 ==  \* one directory linked as `a` and as `a/` (the server redirects
          \* a to a/), a file, and a link to a file on another host
    [dirs |-> (<<>> :> << <<"a">>, <<"a", "/">>, <<"r", ".csv">>,
                         <<OtherToken, "notice", ".txt">> >>)
              @@ (<<"a">> :> << <<"x", ".txt">> >>)
              @@ (<<"a", "/">> :> << <<"x", ".txt">> >>),
     bytes |-> (<<"r", ".csv">> :> "v1")
              @@ (<<"a", "/", "x", ".txt">> :> "v2")
              @@ (<<OtherToken, "notice", ".txt">> :> "v3"),
     stale |-> {<<"r", ".csv">>},
     height |-> 1]

Site7 ==  \* an upper-case extension, a BLS series file without a listed
          \* extension, an extension-less file, and two directory links that
          \* resolve outside base_url: ../other/ and the root-relative /pub/
    [dirs |-> (<<>> :> << <<"X", ".TXT">>,
                         <<"pr", ".data", ".0", ".Current">>,
                         <<"README">>,
                         <<"..", "/", "other", "/">>,
                         <<"/", "pub", "/">> >>)
              @@ (<<"..", "/", "other", "/">> :> <<>>)
              @@ (<<"/", "pub", "/">> :> <<>>),
     bytes |-> (<<"X", ".TXT">> :> "v1")
              @@ (<<"pr", ".data", ".0", ".Current">> :> "v2")
              @@ (<<"README">> :> "v3"),
     stale |-> {<<"X", ".TXT">>},
     height |-> 1]

Site8 ==  \* a root with more subdirectories than the Lambda pool may hold
    [dirs |-> (<<>> :> << <<"a", "/">>, <<"b", "/">>, <<"c", "/">>,
                         <<"d", "/">> >>)
              @@ (<<"a", "/">> :> <<>>)
              @@ (<<"b", "/">> :> <<>>)
              @@ (<<"c", "/">> :> <<>>)
              @@ (<<"d", "/">> :> <<>>),
     bytes |-> <<>>,
     stale |-> {},
     height |-> 1]

Site9 ==  \* c/ is linked from the root and from a/: one link and two links
          \* away from the root; c/d/ holds a file
    [dirs |-> (<<>> :> << <<"a", "/">>, <<"c", "/">> >>)
              @@ (<<"a", "/">> :> << <<"..", "/", "c", "/">> >>)
              @@ (<<"c", "/">> :> << <<"d", "/">> >>)
              @@ (<<"c", "/", "d", "/">> :> << <<"g", ".txt">> >>),
     bytes |-> (<<"c", "/", "d", "/", "g", ".txt">> :> "v1"),
     stale |-> {},
     height |-> 3]

Site10 ==  \* two levels of branching: a/ and b/ under the root, x/ and y/
           \* under a/; a/y/ links pr.data/, whose href ends with "/" and
           \* contains the series pattern pr.data
    [dirs |-> (<<>> :> << <<"a", "/">>, <<"b", "/">> >>)
              @@ (<<"a", "/">> :> << <<"x", "/">>, <<"y", "/">> >>)
              @@ (<<"b", "/">> :> <<>>)
              @@ (<<"a", "/", "x", "/">> :> <<>>)
              @@ (<<"a", "/", "y", "/">> :> << <<"pr", ".data", "/">> >>)
              @@ (<<"a", "/", "y", "/", "pr", ".data", "/">> :> <<>>),
     bytes |-> (<<"a", "/", "y", "/", "pr", ".data", "/">> :> "v1"),
     stale |-> {},
     height |-> 3]

Sites == <<Site1, Site2, Site3, Site4, Site5, Site6, Site7, Site8, Site9,
           Site10>>

Remote == Sites[site]

\* self.base_url, relative to itself
base_url == <<>>

\* ------------------------------------------------------ execution budget
\* faulty variant: the budget is never seen as exhausted
check_execution_time_unchecked == TRUE

\* check_execution_time: data_processor.py 209-212; BLSDataSyncer has none
check_execution_time == syncer = "bls" \/ ~expired

\* ---------------------------------------------- discover_files_recursive
Root == <<>>
Parent(c) == SubSeq(c, 1, Len(c) - 1)
IsChild(c, p) == Len(c) = Len(p) + 1 /\ SubSeq(c, 1, Len(p)) = p
IsDescendant(c, p) == Len(c) > Len(p) /\ SubSeq(c, 1, Len(p)) = p
Children(p) == {c \in DOMAIN calls : IsChild(c, p)}
\* faulty variant: one executor shared by every level, so a parent waiting
\* for its children keeps a worker busy
RunningShared(p) ==
    {c \in DOMAIN calls : c # <<>> /\ calls[c].pc \notin {"queued", "done"}}

Running(p) == {c \in Children(p) : calls[c].pc \notin {"queued", "done"}}

NewCall(url, depth, relative_path, pc) ==
    [url |-> url, depth |-> depth, relative_path |-> relative_path, pc |-> pc,
     listing |-> <<>>, i |-> 0, files |-> <<>>, subdirs |-> <<>>,
     taken |-> {}, workers |-> 0, result |-> <<>>]

\* `return r` of call c: the result becomes the future's result
Return(c, r) == calls' = [calls EXCEPT ![c].pc = "done", ![c].result = r]

\* ThreadPoolExecutor worker takes the next queued call of its pool, in
\* submission order, when fewer than max_workers of the pool are running
StartChild(c) ==
    /\ c # Root
    /\ calls[c].pc = "queued"
    /\ Cardinality(Running(Parent(c))) < calls[Parent(c)].workers
    /\ \A s \in Children(Parent(c)) : Last(s) < Last(c) => calls[s].pc # "queued"
    /\ calls' = [calls EXCEPT ![c].pc = "entry"]
    /\ UNCHANGED <<syncVars, histVars, clean, syncer, site, max_depth, max_workers, processed_urls,
                   discovered_directories, expired, failures, passes, fetched,
                   main, files>>

\* faulty variant: the url is inserted into the visited set before the depth
\* and budget checks
EnterMarksFirst(c) ==
    /\ calls[c].pc = "entry"
    /\ processed_urls' = processed_urls \cup {calls[c].url}
    /\ IF calls[c].depth > max_depth \/ ~check_execution_time
       THEN Return(c, <<>>)
       ELSE calls' = [calls EXCEPT ![c].pc = "visited"]
    /\ UNCHANGED <<syncVars, histVars, clean, syncer, site, max_depth, max_workers,
                   discovered_directories, expired, failures, passes, fetched,
                   main, files>>

\* bls_data_sync.py 150-152, data_processor.py 218-223
Enter(c) ==
    /\ calls[c].pc = "entry"
    /\ IF calls[c].depth > max_depth \/ ~check_execution_time
       THEN Return(c, <<>>)
       ELSE calls' = [calls EXCEPT ![c].pc = "visited"]
    /\ UNCHANGED <<syncVars, histVars, clean, syncer, site, max_depth, max_workers, processed_urls,
                   discovered_directories, expired, failures, passes, fetched,
                   main, files>>

\* bls_data_sync.py 154-155, data_processor.py 225-226
CheckVisited(c) ==
    /\ calls[c].pc = "visited"
    /\ IF calls[c].url \in processed_urls
       THEN /\ Return(c, <<>>)
            /\ UNCHANGED passes
       ELSE /\ calls' = [calls EXCEPT ![c].pc = "lock"]
            /\ passes' = IF calls[c].url \in DOMAIN passes
                          THEN [passes EXCEPT ![calls[c].url] = @ + 1]
                          ELSE passes @@ (calls[c].url :> 1)
    /\ UNCHANGED <<syncVars, histVars, clean, syncer, site, max_depth, max_workers, processed_urls,
                   discovered_directories, expired, failures, fetched,
                   main, files>>

\* bls_data_sync.py 157-158, data_processor.py 228-230
Mark(c) ==
    /\ calls[c].pc = "lock"
    /\ processed_urls' = processed_urls \cup {calls[c].url}
    /\ discovered_directories' =
           IF syncer = "lambda"
           THEN discovered_directories \cup {calls[c].url}
           ELSE discovered_directories
    /\ calls' = [calls EXCEPT ![c].pc = "get"]
    /\ UNCHANGED <<syncVars, histVars, clean, syncer, site, max_depth, max_workers, expired, failures,
                   passes, fetched, main, files>>

\* bls_data_sync.py 166-171 and 224-229, data_processor.py 238-243 and 302-307:
\* the GET answers with the listing, or fails and the call returns []
Get(c) ==
    /\ calls[c].pc = "get"
    /\ fetched' = fetched \cup {[url |-> calls[c].url, depth |-> calls[c].depth,
                                 call |-> c]}
    /\ \/ /\ calls[c].url \in DOMAIN Remote.dirs
          /\ calls' = [calls EXCEPT ![c].pc = "parse",
                                    ![c].listing = Remote.dirs[calls[c].url],
                                    ![c].i = 1]
          /\ UNCHANGED <<failures, clean>>
       \/ /\ calls[c].url \notin DOMAIN Remote.dirs \/ failures < MaxFetchFailures
          /\ Return(c, <<>>)
          /\ failures' = Min(failures + 1, MaxFetchFailures)
          /\ clean' = FALSE
    /\ UNCHANGED <<syncVars, histVars, syncer, site, max_depth, max_workers, processed_urls,
                   discovered_directories, expired, passes, main, files>>

\* faulty variant: the logical name is the href alone, without the path of
\* the directory that lists it
FileInfoFlat(r, href) ==
    [name |-> replace_backslash(href), url |-> urljoin(r.url, href),
     depth |-> r.depth]

\* the dictionary appended for a file link of the listing of call record r
FileInfo(r, href) ==
    [name |-> replace_backslash(
                  IF r.relative_path # <<>>
                  THEN path_join(r.relative_path, href) ELSE href),
     url |-> urljoin(r.url, href),
     depth |-> r.depth]

\* the pair appended for a directory link
SubdirInfo(r, href) ==
    [url |-> urljoin(r.url, href),
     path |-> IF r.relative_path # <<>>
              THEN path_join(r.relative_path, rstrip_slash(href))
              ELSE rstrip_slash(href)]

\* faulty variant: the directory test is an `if` of its own, not an `elif`
ParseStepBoth(r, href) ==
    IF href = <<>> THEN [r EXCEPT !.i = @ + 1]
    ELSE [r EXCEPT
            !.i = @ + 1,
            !.files = IF is_valid_file(href)
                      THEN Append(@, FileInfo(r, href)) ELSE @,
            !.subdirs = IF /\ is_valid_directory(href)
                           /\ urljoin(r.url, href) \notin processed_urls
                        THEN Append(@, SubdirInfo(r, href)) ELSE @]

\* the body of the link loop for one href, on call record r
ParseStep(r, href) ==
    IF href = <<>> THEN [r EXCEPT !.i = @ + 1]
    ELSE IF is_valid_file(href) THEN
        [r EXCEPT !.i = @ + 1, !.files = Append(@, FileInfo(r, href))]
    ELSE IF is_valid_directory(href) /\ urljoin(r.url, href) \notin processed_urls THEN
        [r EXCEPT !.i = @ + 1, !.subdirs = Append(@, SubdirInfo(r, href))]
    ELSE [r EXCEPT !.i = @ + 1]

\* one iteration of the link loop: bls_data_sync.py 174-201,
\* data_processor.py 246-272
ParseLink(c) ==
    /\ calls[c].pc = "parse"
    /\ calls[c].i <= Len(calls[c].listing)
    /\ calls' = [calls EXCEPT
                   ![c] = ParseStep(calls[c], calls[c].listing[calls[c].i])]
    /\ UNCHANGED <<syncVars, histVars, clean, syncer, site, max_depth, max_workers,
                   processed_urls, discovered_directories, expired, failures,
                   passes, fetched, main, files>>

\* min(self.max_workers, len(subdirs)), capped at 3 in the Lambda syncer
LambdaWorkerCap == 3

\* faulty variant: a pool as large as the number of children
actual_workers_unbounded(n) == n

actual_workers(n) ==
    IF syncer = "bls" THEN Min(max_workers, n)
    ELSE Min(Min(max_workers, n), LambdaWorkerCap)

\* faulty variant: the child is handed its parent's depth
ChildDepthSame(c) == calls[c].depth

\* the depth argument handed to a child: depth + 1
ChildDepth(c) == calls[c].depth + 1

\* faulty variant: the pool is opened as soon as one subdirectory is enqueued
LoopDoneAtFirstSubdir(c) ==
    calls[c].subdirs # <<>> \/ calls[c].i > Len(calls[c].listing)

\* `for link in soup.find_all('a', href=True)` has run through the listing
LoopDone(c) == calls[c].i > Len(calls[c].listing)

\* the condition that guards the pool
ShouldDispatch(c) ==
    /\ calls[c].subdirs # <<>>
    /\ calls[c].depth < max_depth
    /\ check_execution_time

\* bls_data_sync.py 206-212 and 222, data_processor.py 277-286 and 300:
\* submit one child per queued subdirectory, or return the files
Dispatch(c) ==
    /\ calls[c].pc = "parse"
    /\ LoopDone(c)
    /\ IF ShouldDispatch(c)
       THEN calls' =
              [calls EXCEPT ![c].pc = "await",
                            ![c].workers = actual_workers(Len(calls[c].subdirs))]
              @@ [k \in {Append(c, j) : j \in 1..Len(calls[c].subdirs)} |->
                    NewCall(calls[c].subdirs[Last(k)].url, ChildDepth(c),
                            calls[c].subdirs[Last(k)].path, "queued")]
       ELSE Return(c, calls[c].files)
    /\ UNCHANGED <<syncVars, histVars, clean, syncer, site, max_depth, max_workers, processed_urls,
                   discovered_directories, expired, failures, passes, fetched,
                   main, files>>

\* faulty variant: the wait loop is left at the first future it is handed
BreaksOnFirstFuture == TRUE

\* the Lambda loop leaves at the first future it is handed after the budget
\* ran out: data_processor.py 289-291
BreaksOnBudget == syncer = "lambda" /\ ~check_execution_time

\* one iteration of `for future in as_completed(...)`: bls_data_sync.py
\* 214-220, data_processor.py 288-298.  k is a finished child not yet handed
\* out; the loop ends with the last one
AwaitNext(p, k) ==
    /\ calls[p].pc = "await"
    /\ k \in Children(p)
    /\ calls[k].pc = "done"
    /\ k \notin calls[p].taken
    /\ calls' =
         IF BreaksOnBudget THEN [calls EXCEPT ![p].pc = "exit"]
         ELSE [calls EXCEPT
                 ![p].files = @ \o calls[k].result,
                 ![p].taken = @ \cup {k},
                 ![p].pc = IF calls[p].taken \cup {k} = Children(p)
                           THEN "exit" ELSE "await"]
    /\ UNCHANGED <<syncVars, histVars, clean, syncer, site, max_depth, max_workers, processed_urls,
                   discovered_directories, expired, failures, passes, fetched,
                   main, files>>

\* leaving `with ThreadPoolExecutor(...)`: shutdown(wait=True) joins every
\* submitted child, then `return files`
ExitPool(p) ==
    /\ calls[p].pc = "exit"
    /\ \A k \in Children(p) : calls[k].pc = "done"
    /\ calls' = [c \in {d \in DOMAIN calls : ~IsDescendant(d, p)} |->
                   IF c = p THEN [calls[p] EXCEPT !.pc = "done", !.result = calls[p].files]
                   ELSE calls[c]]
    /\ UNCHANGED <<syncVars, histVars, clean, syncer, site, max_depth, max_workers, processed_urls,
                   discovered_directories, expired, failures, passes, fetched,
                   main, files>>

\* ------------------------------------------- discover_files / discover_all_files
NoCalls == [c \in {} |-> 0]
NoPasses == [u \in {} |-> 0]

\* bls_data_sync.py 240-246, data_processor.py 315-321: reset the discovery
\* state and enter the recursion at base_url on the caller's thread
StartDiscovery ==
    /\ main = "start"
    /\ main' = "discovering"
    /\ processed_urls' = {}
    /\ discovered_directories' = {}
    /\ calls' = (Root :> NewCall(base_url, 0, <<>>, "entry"))
    /\ passes' = NoPasses
    /\ fetched' = {}
    /\ failures' = 0
    /\ files' = <<>>
    /\ UNCHANGED <<syncVars, histVars, clean, syncer, site, max_depth, max_workers, expired>>

\* faulty variant: the raw list is handed on as it is
raw_files(fs) == fs

\* unique_files: the first entry of each url, in list order
RECURSIVE unique_files(_)
unique_files(fs) ==
    IF fs = <<>> THEN <<>>
    ELSE LET init == unique_files(SubSeq(fs, 1, Len(fs) - 1))
         IN IF \E j \in DOMAIN init : init[j].url = Last(fs).url
            THEN init ELSE Append(init, Last(fs))

\* bls_data_sync.py 248-257, data_processor.py 323-332
FinishDiscovery ==
    /\ main = "discovering"
    /\ calls[Root].pc = "done"
    /\ files' = unique_files(calls[Root].result)
    /\ calls' = NoCalls
    /\ main' = "discovered"
    /\ UNCHANGED <<syncVars, histVars, clean, syncer, site, max_depth, max_workers,
                   processed_urls, discovered_directories, expired, failures,
                   passes, fetched>>

\* urls of the file entries some call holds or has returned, or that
\* discovery has returned
Gathered ==
    UNION {{calls[c].files[i].url : i \in DOMAIN calls[c].files}
             \cup {calls[c].result[i].url : i \in DOMAIN calls[c].result} :
           c \in DOMAIN calls}
    \cup {files[i].url : i \in DOMAIN files}

\* wall-clock time passes the budget of the running Lambda invocation
Expire ==
    /\ syncer = "lambda"
    /\ main \notin {"start", "returned", "responded"}
    /\ ~expired
    /\ expired' = TRUE
    /\ found' = Gathered
    /\ UNCHANGED <<syncVars, prev_files, response, store0, population, clean, syncer, site, max_depth, max_workers,
                   processed_urls, discovered_directories, calls, failures,
                   passes, fetched, main, files>>

\* ------------------------------------------------------------ object store
\* hashlib.md5(...).hexdigest() of the bytes b: get_file_hash
get_file_hash(b) == <<"md5:", b>>

\* the ETag header S3 reports for an object holding the bytes b
ETagHeader(b) == <<"\"">> \o get_file_hash(b) \o <<"\"">>

\* str.strip('"')
RECURSIVE strip_quotes(_)
strip_quotes(s) ==
    IF Len(s) > 0 /\ s[1] = "\"" THEN strip_quotes(Tail(s))
    ELSE IF Len(s) > 0 /\ Last(s) = "\"" THEN strip_quotes(SubSeq(s, 1, Len(s) - 1))
    ELSE s

\* s3_key = f"bls-data/{file_info['name']}"
s3_key(name) == <<"bls-data/">> \o name

None == <<"None">>
EmptyStore == [k \in {} |-> "v0"]

\* what a request to the store can do: answer, raise botocore ClientError,
\* raise another exception (connection error, upload failure)
Outcomes == {"ok", "ClientError", "Exception"}

\* faulty variant: every answered head_object reads as "there"
object_exists_unkeyed(key, o) == o = "ok"

\* shared/utils.py 135-152: any ClientError reads as "not there"
object_exists_in_s3(key, o) == o = "ok" /\ key \in DOMAIN store

\* shared/utils.py 154-171: None on ClientError
get_object_etag(key, o) ==
    IF o = "ok" /\ key \in DOMAIN store
    THEN strip_quotes(ETagHeader(store[key]))
    ELSE None

\* BLSDataSyncer.should_upload_file, bls_data_sync.py 315-342; o1 and o2 are
\* the outcomes of its two store requests
should_upload_bls(name, o1, o2) ==
    IF o1 = "Exception" THEN "raise"
    ELSE IF ~object_exists_in_s3(s3_key(name), o1) THEN "upload"
    ELSE IF o2 = "Exception" THEN "raise"
    ELSE LET local_hash == get_file_hash(local)
             s3_etag == get_object_etag(s3_key(name), o2)
         IN IF s3_etag # None /\ s3_etag # <<>>
               /\ strip_quotes(s3_etag) # local_hash
            THEN "upload" ELSE "skip"

\* EnhancedBLSDataSyncer.should_upload_file, data_processor.py 342-365: every
\* exception of either head_object answers True
should_upload_lambda(name, o1, o2) ==
    IF o1 # "ok" \/ s3_key(name) \notin DOMAIN store THEN "upload"
    ELSE IF o2 # "ok" THEN "upload"
    ELSE IF strip_quotes(ETagHeader(store[s3_key(name)])) # get_file_hash(local)
    THEN "upload" ELSE "skip"

should_upload_file(name, o1, o2) ==
    IF syncer = "bls" THEN should_upload_bls(name, o1, o2)
    ELSE should_upload_lambda(name, o1, o2)

\* whether should_upload_file gets as far as its second store request
AsksETag(name, o1) ==
    IF syncer = "bls" THEN object_exists_in_s3(s3_key(name), o1)
    ELSE o1 = "ok" /\ s3_key(name) \in DOMAIN store

\* ------------------------------------------ sync_files / sync_files_recursive
max_files_for_lambda == 50

\* the slice the file loop walks: files, files[:max_files_for_lambda]
LoopLen ==
    IF syncer = "bls" THEN Len(files) ELSE Min(Len(files), max_files_for_lambda)

\* faulty variant: the loop is also left once a file has failed
LoopEndsAfterFailure ==
    \/ idx > LoopLen
    \/ ~check_execution_time
    \/ \E i \in DOMAIN status : status[i] \in {"FailedDownload", "FailedUpload"}

\* faulty variant: the file loop does not look at the budget
LoopEndsOnLengthOnly == idx > LoopLen

\* the file loop is over: the slice is exhausted, or the Lambda loop breaks
\* on the budget (data_processor.py 387-389)
LoopEnds == idx > LoopLen \/ ~check_execution_time

\* bls_data_sync.py 351-360: credentials or bucket unavailable, return 0, 0
Preflight ==
    /\ syncer = "bls"
    /\ main = "start"
    /\ main' = "returned"
    /\ result' = <<0, 0>>
    /\ clean' = FALSE
    /\ UNCHANGED <<confVars, histVars, processed_urls, discovered_directories, calls,
                   expired, failures, passes, fetched, files, store, idx, local,
                   successful_uploads, skipped_files, failed_downloads,
                   failed_uploads, processed_files, status, asked, prev>>

\* bls_data_sync.py 363-375, data_processor.py 373-384
BeginSync ==
    /\ main = "discovered"
    /\ IF files = <<>>
       THEN /\ main' = "returned"
            /\ result' = IF syncer = "bls" THEN <<0, 0>>
                         ELSE <<0, 0, Cardinality(discovered_directories)>>
            /\ UNCHANGED <<idx, status>>
       ELSE /\ main' = "loop"
            /\ idx' = 1
            /\ status' = [i \in DOMAIN files |-> "Discovered"]
            /\ UNCHANGED result
    /\ successful_uploads' = 0
    /\ skipped_files' = 0
    /\ failed_downloads' = 0
    /\ failed_uploads' = 0
    /\ processed_files' = 0
    /\ UNCHANGED <<confVars, histVars, processed_urls, discovered_directories, calls,
                   expired, failures, passes, fetched, files, store, local,
                   asked, clean, prev>>

\* faulty variant: taking a file registers its url in the visited set
NextFileMarksVisited ==
    /\ main = "loop"
    /\ ~LoopEnds
    /\ main' = "download"
    /\ processed_urls' = processed_urls \cup {files[idx].url}
    /\ processed_files' = IF syncer = "lambda" THEN processed_files + 1
                          ELSE processed_files
    /\ UNCHANGED <<confVars, histVars, discovered_directories, calls,
                   expired, failures, passes, fetched, files, store, idx, local,
                   successful_uploads, skipped_files, failed_downloads,
                   failed_uploads, status, result, asked, clean, prev>>

\* the loop takes the next file: bls_data_sync.py 377-392,
\* data_processor.py 386-393
NextFile ==
    /\ main = "loop"
    /\ ~LoopEnds
    /\ main' = "download"
    /\ processed_files' = IF syncer = "lambda" THEN processed_files + 1
                          ELSE processed_files
    /\ UNCHANGED <<confVars, histVars, processed_urls, discovered_directories, calls,
                   expired, failures, passes, fetched, files, store, idx, local,
                   successful_uploads, skipped_files, failed_downloads,
                   failed_uploads, status, result, asked, clean, prev>>

\* the loop ends, or the Lambda loop breaks on the budget:
\* bls_data_sync.py 418-431, data_processor.py 387-389 and 417-418
FinishSync ==
    /\ main = "loop"
    /\ LoopEnds
    /\ main' = "returned"
    /\ result' = IF syncer = "bls" THEN <<successful_uploads, Len(files)>>
                 ELSE <<successful_uploads, processed_files,
                        Cardinality(discovered_directories)>>
    /\ UNCHANGED <<confVars, histVars, processed_urls, discovered_directories, calls,
                   expired, failures, passes, fetched, files, store, idx, local,
                   successful_uploads, skipped_files, failed_downloads,
                   failed_uploads, processed_files, status, asked, clean, prev>>

\* faulty variant: a failed download is not counted
DownloadUncounted(ok) ==
    /\ main = "download"
    /\ IF ok /\ files[idx].url \in DOMAIN Remote.bytes
       THEN /\ local' = Remote.bytes[files[idx].url]
            /\ main' = "decide"
            /\ UNCHANGED <<idx, status, clean>>
       ELSE /\ status' = [status EXCEPT ![idx] = "FailedDownload"]
            /\ idx' = idx + 1
            /\ main' = "loop"
            /\ clean' = FALSE
            /\ UNCHANGED local
    /\ UNCHANGED <<confVars, histVars, processed_urls, discovered_directories, calls,
                   expired, failures, passes, fetched, files, store,
                   successful_uploads, skipped_files, failed_uploads,
                   failed_downloads, processed_files, result, asked, prev>>

\* download_file, bls_data_sync.py 275-313 and 394-397; data_processor.py
\* 395-404 and 413-415.  ok: whether the GET of the file succeeds
Download(ok) ==
    /\ main = "download"
    /\ IF ok /\ files[idx].url \in DOMAIN Remote.bytes
       THEN /\ local' = Remote.bytes[files[idx].url]
            /\ main' = "decide"
            /\ UNCHANGED <<idx, failed_downloads, status, clean>>
       ELSE /\ failed_downloads' = IF syncer = "bls" THEN failed_downloads + 1
                                   ELSE failed_downloads
            /\ status' = [status EXCEPT ![idx] = "FailedDownload"]
            /\ idx' = idx + 1
            /\ main' = "loop"
            /\ clean' = FALSE
            /\ UNCHANGED local
    /\ UNCHANGED <<confVars, histVars, processed_urls, discovered_directories, calls,
                   expired, failures, passes, fetched, files, store,
                   successful_uploads, skipped_files, failed_uploads,
                   processed_files, result, asked, prev>>

\* faulty variant: a file judged up to date is written again, with a marker
\* of the pass in place of its bytes
DecideRewritesSkipped(o1, o2) ==
    /\ main = "decide"
    /\ ~AsksETag(files[idx].name, o1) => o2 = "ok"
    /\ LET d == should_upload_file(files[idx].name, o1, o2)
       IN /\ main' = IF d = "upload" THEN "upload" ELSE "loop"
          /\ idx' = IF d = "upload" THEN idx ELSE idx + 1
          /\ status' = IF d = "skip" THEN [status EXCEPT ![idx] = "Skipped"]
                       ELSE IF d = "raise"
                       THEN [status EXCEPT ![idx] = "FailedUpload"]
                       ELSE status
          /\ skipped_files' = IF d = "skip" /\ syncer = "bls"
                              THEN skipped_files + 1 ELSE skipped_files
          /\ failed_uploads' = IF d = "raise" THEN failed_uploads + 1
                               ELSE failed_uploads
          /\ store' = IF d = "skip"
                      THEN [store EXCEPT ![s3_key(files[idx].name)] = "touched"]
                      ELSE store
    /\ clean' = (clean /\ o1 = "ok" /\ o2 = "ok")
    /\ asked' = <<o1, o2>>
    /\ UNCHANGED <<confVars, histVars, processed_urls, discovered_directories, calls,
                   expired, failures, passes, fetched, files, local,
                   successful_uploads, failed_downloads, processed_files,
                   result, prev>>

\* should_upload_file and what the loop does with its answer:
\* bls_data_sync.py 399-402 and 413-416, data_processor.py 406-407
Decide(o1, o2) ==
    /\ main = "decide"
    /\ ~AsksETag(files[idx].name, o1) => o2 = "ok"
    /\ LET d == should_upload_file(files[idx].name, o1, o2)
       IN /\ main' = IF d = "upload" THEN "upload" ELSE "loop"
          /\ idx' = IF d = "upload" THEN idx ELSE idx + 1
          /\ status' = IF d = "skip" THEN [status EXCEPT ![idx] = "Skipped"]
                       ELSE IF d = "raise"
                       THEN [status EXCEPT ![idx] = "FailedUpload"]
                       ELSE status
          /\ skipped_files' = IF d = "skip" /\ syncer = "bls"
                              THEN skipped_files + 1 ELSE skipped_files
          /\ failed_uploads' = IF d = "raise" THEN failed_uploads + 1
                               ELSE failed_uploads
    /\ clean' = (clean /\ o1 = "ok" /\ o2 = "ok")
    /\ asked' = <<o1, o2>>
    /\ UNCHANGED <<confVars, histVars, processed_urls, discovered_directories, calls,
                   expired, failures, passes, fetched, files, store, local,
                   successful_uploads, failed_downloads, processed_files,
                   result, prev>>

\* faulty variant: an upload is counted when it is attempted
UploadCountsAttempt(ok) ==
    /\ main = "upload"
    /\ IF ok
       THEN /\ store' = [k \in DOMAIN store \cup {s3_key(files[idx].name)} |->
                           IF k = s3_key(files[idx].name) THEN local ELSE store[k]]
            /\ status' = [status EXCEPT ![idx] = "Uploaded"]
            /\ UNCHANGED <<failed_uploads, clean>>
       ELSE /\ failed_uploads' = IF syncer = "bls" THEN failed_uploads + 1
                                 ELSE failed_uploads
            /\ status' = [status EXCEPT ![idx] = "FailedUpload"]
            /\ clean' = FALSE
            /\ UNCHANGED store
    /\ successful_uploads' = successful_uploads + 1
    /\ idx' = idx + 1
    /\ main' = "loop"
    /\ UNCHANGED <<confVars, histVars, processed_urls, discovered_directories, calls,
                   expired, failures, passes, fetched, files, local,
                   skipped_files, failed_downloads, processed_files, result,
                   asked, prev>>

\* upload_to_s3 / s3_client.upload_file: bls_data_sync.py 404-411,
\* shared/utils.py 87-110, data_processor.py 408-411
Upload(ok) ==
    /\ main = "upload"
    /\ IF ok
       THEN /\ store' = [k \in DOMAIN store \cup {s3_key(files[idx].name)} |->
                           IF k = s3_key(files[idx].name) THEN local ELSE store[k]]
            /\ successful_uploads' = successful_uploads + 1
            /\ status' = [status EXCEPT ![idx] = "Uploaded"]
            /\ UNCHANGED <<failed_uploads, clean>>
       ELSE /\ failed_uploads' = IF syncer = "bls" THEN failed_uploads + 1
                                 ELSE failed_uploads
            /\ status' = [status EXCEPT ![idx] = "FailedUpload"]
            /\ clean' = FALSE
            /\ UNCHANGED <<store, successful_uploads>>
    /\ idx' = idx + 1
    /\ main' = "loop"
    /\ UNCHANGED <<confVars, histVars, processed_urls, discovered_directories, calls,
                   expired, failures, passes, fetched, files, local,
                   skipped_files, failed_downloads, processed_files, result,
                   asked, prev>>

\* the results dictionary before anything has run: data_processor.py 55-60
NoResponse ==
    [statusCode |-> 0,
     bls_sync |-> [success |-> FALSE, files_uploaded |-> 0, total_files |-> 0,
                   directories_explored |-> 0],
     population_fetch |-> FALSE,
     analytics_triggered |-> FALSE]

\* lambda_handler after sync_files_recursive has returned: data_processor.py
\* 73-122 and 124-135.  population_success is what PopulationAPIClient.run
\* returns, sqs the outcome of send_message; both only happen with more
\* than 60 s left
Respond(population_success, sqs) ==
    /\ syncer = "lambda"
    /\ main = "returned"
    /\ LET bls == [success |-> result[1] >= 0,
                   files_uploaded |-> result[1],
                   total_files |-> result[2],
                   directories_explored |-> result[3]]
           triggers == ~expired /\ (result[1] > 0 \/ population_success)
       IN /\ expired => ~population_success
          /\ ~triggers => sqs = "ok"
          /\ response' =
                [statusCode |-> IF sqs = "ok" THEN 200 ELSE 500,
                 bls_sync |-> bls,
                 population_fetch |-> population_success,
                 analytics_triggered |-> triggers /\ sqs = "ok"]
    /\ main' = "responded"
    /\ UNCHANGED <<confVars, found, prev_files, store0, population, processed_urls,
                   discovered_directories, calls, expired, failures, passes,
                   fetched, files, store, idx, local, successful_uploads,
                   skipped_files, failed_downloads, failed_uploads,
                   processed_files, status, result, asked, clean, prev>>

\* the (logical name, url) pairs of a file list
Pairs(fs) == {<<fs[i].name, fs[i].url>> : i \in DOMAIN fs}

\* the next run against the same bucket: a new syncer object, whose
\* __init__ empties the sets, or another call on the object of the last run
NextRun ==
    /\ main = IF syncer = "lambda" THEN "responded" ELSE "returned"
    /\ main' = "start"
    /\ prev' = IF ~clean THEN "failed"
               ELSE IF expired THEN "truncated" ELSE "clean"
    /\ clean' = TRUE
    /\ expired' = FALSE
    /\ idx' = 0
    /\ local' = "none"
    /\ successful_uploads' = 0
    /\ skipped_files' = 0
    /\ failed_downloads' = 0
    /\ failed_uploads' = 0
    /\ processed_files' = 0
    /\ status' = <<>>
    /\ result' = <<>>
    /\ asked' = <<>>
    /\ \/ processed_urls' = {} /\ discovered_directories' = {}
       \/ UNCHANGED <<processed_urls, discovered_directories>>
    /\ passes' = NoPasses
    /\ fetched' = {}
    /\ failures' = 0
    /\ files' = <<>>
    /\ found' = {}
    /\ response' = NoResponse
    /\ store0' = store
    /\ prev_files' = IF clean /\ ~expired THEN Pairs(files) ELSE {}
    /\ UNCHANGED <<confVars, calls, store, population>>

\* --------------------------------------------------- population API client
\* the `years` argument: absent (None) or a list of years
NoYears == [given |-> FALSE, list |-> <<>>]
YearList(l) == [given |-> TRUE, list |-> l]

\* the arguments the callers pass: none (run), the range of
\* fetch_historical_population_data, the list of test_apis; an empty and
\* an unordered list, which the signature admits as well
YearsInputs ==
    {NoYears, YearList(<<>>), YearList(<<2013, 2014, 2015>>),
     YearList(<<2015, 2013>>), YearList(<<2020>>),
     YearList(<<2013, 2014, 2015, 2016, 2017, 2018>>)}

\* `if years:` is false for None and for the empty list
YearsGiven(years) == years.given /\ Len(years.list) > 0
YearSet(years) == {years.list[i] : i \in DOMAIN years.list}
min(years) == CHOOSE m \in YearSet(years) : \A y \in YearSet(years) : m <= y
max(years) == CHOOSE m \in YearSet(years) : \A y \in YearSet(years) : m >= y

\* what a source returns: None, or the enriched dictionary, of which the
\* model keeps metadata.source and the years of the records in data
NoData == [source |-> "None", records |-> {}]
Enriched(source, years) == [source |-> source, records |-> years]

\* `if data:` - None is false, an enriched dictionary is never empty
HasData(data) == data # NoData

\* fetch_population_data has not been called
NotCalled == [pc |-> "idle", years |-> NoYears, log |-> <<>>, data |-> NoData]

\* the ways the DataUSA request ends: a body with records, a body whose
\* data list is empty, or one of the failures the function turns into None
DataUSAResponses ==
    {"records", "empty", "502", "520", "404", "no data field", "not json",
     "timeout"}

\* the years DataUSA serves when the request names none
DataUSAYears == 2013 .. 2022

\* the years the Census API can serve (its data end in 2023)
CensusYears == 2013 .. 2023

fetch_datausa_population_data(years, resp) ==
    IF resp = "records"
    THEN Enriched("DataUSA API",
                  IF YearsGiven(years) THEN YearSet(years) ELSE DataUSAYears)
    ELSE IF resp = "empty" THEN Enriched("DataUSA API", {})
    ELSE NoData

\* one request per year of range(start_year, min(end_year + 1, 2024));
\* got holds the years whose request brought a data row
fetch_census_population_data(start_year, end_year, got) ==
    LET all_data == got \cap (start_year .. (Min(end_year + 1, 2024) - 1))
    IN IF all_data = {} THEN NoData
       ELSE Enriched("Census Bureau Population Estimates API", all_data)

generate_mock_data(start_year, end_year) ==
    Enriched("Mock Data (Testing)", start_year .. end_year)

\* the year range of the Census fallback and of the mock data
census_range(years) ==
    IF YearsGiven(years) THEN <<min(years), max(years)>> ELSE <<2013, 2023>>
mock_range(years) ==
    IF YearsGiven(years) THEN <<min(years), max(years)>> ELSE <<2013, 2018>>

Logged(fn, args, ret) == [fn |-> fn, args |-> args, ret |-> ret]

\* a caller enters fetch_population_data(years)
CallFetchPopulation(years) ==
    /\ population.pc = "idle"
    /\ population' = [NotCalled EXCEPT !.pc = "datausa", !.years = years]
    /\ UNCHANGED <<confVars, syncVars, found, prev_files, response, store0,
                   processed_urls, discovered_directories, calls, expired,
                   failures, passes, fetched, main, files, clean>>

\* a variant that goes on to the Census API whatever DataUSA returned
FetchDataUSAFallsThrough(resp) ==
    /\ population.pc = "datausa"
    /\ LET data == fetch_datausa_population_data(population.years, resp)
       IN population' =
            [population EXCEPT
                !.log = Append(@, Logged("fetch_datausa_population_data",
                                         <<population.years>>, data)),
                !.pc = "census",
                !.data = NoData]
    /\ UNCHANGED <<confVars, syncVars, found, prev_files, response, store0,
                   processed_urls, discovered_directories, calls, expired,
                   failures, passes, fetched, main, files, clean>>

\* data = self.fetch_datausa_population_data(years); if data: return data
FetchDataUSA(resp) ==
    /\ population.pc = "datausa"
    /\ LET data == fetch_datausa_population_data(population.years, resp)
       IN population' =
            [population EXCEPT
                !.log = Append(@, Logged("fetch_datausa_population_data",
                                         <<population.years>>, data)),
                !.pc = IF HasData(data) THEN "returned" ELSE "census",
                !.data = data]
    /\ UNCHANGED <<confVars, syncVars, found, prev_files, response, store0,
                   processed_urls, discovered_directories, calls, expired,
                   failures, passes, fetched, main, files, clean>>

\* data = self.fetch_census_population_data(start_year, end_year);
\* if data: return data
FetchCensus(got) ==
    /\ population.pc = "census"
    /\ LET range == census_range(population.years)
           data == fetch_census_population_data(range[1], range[2], got)
       IN population' =
            [population EXCEPT
                !.log = Append(@, Logged("fetch_census_population_data",
                                         range, data)),
                !.pc = IF HasData(data) THEN "returned" ELSE "mock",
                !.data = data]
    /\ UNCHANGED <<confVars, syncVars, found, prev_files, response, store0,
                   processed_urls, discovered_directories, calls, expired,
                   failures, passes, fetched, main, files, clean>>

\* return self.generate_mock_data(start_year, end_year)
GenerateMock ==
    /\ population.pc = "mock"
    /\ LET range == mock_range(population.years)
           data == generate_mock_data(range[1], range[2])
       IN population' =
            [population EXCEPT
                !.log = Append(@, Logged("generate_mock_data", range, data)),
                !.pc = "returned",
                !.data = data]
    /\ UNCHANGED <<confVars, syncVars, found, prev_files, response, store0,
                   processed_urls, discovered_directories, calls, expired,
                   failures, passes, fetched, main, files, clean>>

\* ------------------------------------------------------------ specification
vars == <<syncer, site, max_depth, max_workers, processed_urls,
          discovered_directories, calls, expired, failures, passes, fetched,
          main, files, store, idx, local, successful_uploads, skipped_files,
          failed_downloads, failed_uploads, processed_files, status, result,
          asked, clean, prev, found, prev_files, response, store0,
          population>>

\* the bucket before the first run: empty, or holding older bytes under the
\* keys an earlier sync wrote
\* the Lambda syncer is also run with BLS_MAX_WORKERS above its cap where
\* the root links more directories than the cap
WorkersAboveCap ==
    IF /\ syncer = "lambda"
       /\ Cardinality({i \in DOMAIN Remote.dirs[base_url] :
                          is_valid_directory(Remote.dirs[base_url][i])})
              > LambdaWorkerCap
    THEN {LambdaWorkerCap + 1} ELSE {}

StaleStore == [k \in {s3_key(n) : n \in Remote.stale} |-> "v0"]

Init ==
    /\ syncer \in {"bls", "lambda"}
    /\ site \in 1..Len(Sites)
    /\ max_depth \in 0..Min(MaxDepthCfg, Remote.height)
    /\ max_workers \in (1..MaxWorkersCfg) \cup WorkersAboveCap
    /\ processed_urls = {}
    /\ discovered_directories = {}
    /\ calls = NoCalls
    /\ expired = FALSE
    /\ failures = 0
    /\ passes = NoPasses
    /\ fetched = {}
    /\ main = "start"
    /\ files = <<>>
    /\ store \in {EmptyStore, StaleStore}
    /\ idx = 0
    /\ local = "none"
    /\ successful_uploads = 0
    /\ skipped_files = 0
    /\ failed_downloads = 0
    /\ failed_uploads = 0
    /\ processed_files = 0
    /\ status = <<>>
    /\ result = <<>>
    /\ asked = <<>>
    /\ clean = TRUE
    /\ prev = "none"
    /\ found = {}
    /\ prev_files = {}
    /\ response = NoResponse
    /\ store0 = store
    /\ population = NotCalled

\* the steps of one discovery: the caller's thread and the pool threads
Traverse ==
    \/ StartDiscovery
    \/ FinishDiscovery
    \/ \E c \in DOMAIN calls : StartChild(c)
    \/ \E c \in DOMAIN calls : Enter(c)
    \/ \E c \in DOMAIN calls : CheckVisited(c)
    \/ \E c \in DOMAIN calls : Mark(c)
    \/ \E c \in DOMAIN calls : Get(c)
    \/ \E c \in DOMAIN calls : ParseLink(c)
    \/ \E c \in DOMAIN calls : Dispatch(c)
    \/ \E p \in DOMAIN calls : \E k \in DOMAIN calls : AwaitNext(p, k)
    \/ \E p \in DOMAIN calls : ExitPool(p)

Next ==
    \/ Traverse
    \/ Expire
    \/ Preflight
    \/ BeginSync
    \/ NextFile
    \/ FinishSync
    \/ \E ok \in BOOLEAN : Download(ok)
    \/ \E o1 \in Outcomes : \E o2 \in Outcomes : Decide(o1, o2)
    \/ \E ok \in BOOLEAN : Upload(ok)
    \/ \E ok \in BOOLEAN : \E o \in {"ok", "Exception"} : Respond(ok, o)
    \/ NextRun

Spec == Init /\ [][Next]_vars

\* discovery alone.  Every thread that can take a step is scheduled again
\* and every request ends (requests carry timeouts), hence weak fairness
DiscoveryNext == Traverse \/ Expire
DiscoverySpec == Init /\ [][DiscoveryNext]_vars /\ WF_vars(Traverse)

\* scheduled runs one after the other in which no request fails and the
\* budget lasts through discovery and through at least one file of the loop.
\* Every run is started and every step of a run is taken in the end, hence
\* weak fairness of the steps
SteadyNext ==
    \/ Traverse /\ clean'
    \/ Expire /\ main = "loop" /\ idx > 1
    \/ BeginSync
    \/ NextFile
    \/ FinishSync
    \/ Download(TRUE) /\ clean'
    \/ Decide("ok", "ok")
    \/ Upload(TRUE)
    \/ \E ok \in BOOLEAN : Respond(ok, "ok")
    \/ NextRun
SteadySpec == Init /\ [][SteadyNext]_vars /\ WF_vars(SteadyNext)

\* the population client alone: calls of fetch_population_data with each
\* of the callers' arguments, while no syncer runs
PopulationInit ==
    /\ Init
    /\ syncer = "bls"
    /\ site = 1
    /\ max_depth = 0
    /\ max_workers = 1
    /\ store = EmptyStore
PopulationNext ==
    \/ \E years \in YearsInputs : CallFetchPopulation(years)
    \/ \E resp \in DataUSAResponses : FetchDataUSA(resp)
    \/ \E got \in SUBSET CensusYears : FetchCensus(got)
    \/ GenerateMock
PopulationSpec == PopulationInit /\ [][PopulationNext]_vars

\* ================================================================== claims

Fetches(u) == {f \in fetched : f.url = u}

\* C1: in one discovery run at most one call of discover_files_recursive per
\* URL gets past the visited check and fetches that URL's listing, under
\* every interleaving of the worker threads.
C1_OnePassPerUrl ==
    /\ \A u \in DOMAIN passes : passes[u] <= 1
    /\ \A f \in fetched : Cardinality(Fetches(f.url)) <= 1

\* C2: every listing is fetched by a call whose depth argument is at most
\* max_depth and counts the links followed from the root, and every file a
\* call returns, and every file discovery returns, has depth <= max_depth.
C2_DepthBound ==
    /\ \A f \in fetched : f.depth <= max_depth /\ f.depth = Len(f.call)
    /\ \A c \in DOMAIN calls :
         /\ \A i \in DOMAIN calls[c].files : calls[c].files[i].depth <= max_depth
         /\ \A i \in DOMAIN calls[c].result : calls[c].result[i].depth <= max_depth
    /\ \A i \in DOMAIN files : files[i].depth <= max_depth

\* a directory at depth max_depth listed subdirectories, explored none of
\* them and returned its files
C2_Witness ==
    /\ main = "discovering"
    /\ \E c \in DOMAIN calls :
         /\ calls[c].pc = "done"
         /\ calls[c].depth = max_depth
         /\ calls[c].subdirs # <<>>
         /\ calls[c].result # <<>>

\* C3: discovery terminates on every finite link graph, cycles included: the
\* top-level call returns, which joins every dispatched child.
C3_DiscoveryTerminates == (main = "discovering") ~> (main = "discovered")

\* discovery of the site with cycles returned after exploring a/b/, whose
\* listing links back to a/ and to the root
C3_Witness ==
    /\ main = "discovered"
    /\ site = 4
    /\ <<"a", "/", "b", "/">> \in processed_urls
    /\ Len(files) = 2

\* the destination key of the file the loop is at, and whether the store
\* holds other bytes there than the ones just downloaded
CurrentKey == s3_key(files[idx].name)
ContentDiffers == CurrentKey \in DOMAIN store /\ store[CurrentKey] # local

\* C4: a file whose downloaded bytes differ from the content stored at its
\* destination key is never classified Skipped by the decision step, for
\* every outcome of the two store queries.
C4_ChangedNeverSkipped ==
    [][(main = "decide" /\ ContentDiffers) => status'[idx] # "Skipped"]_vars

\* C5: a run that follows a complete run with no failed operation, and is
\* itself complete with no failed operation, against the same remote,
\* returns uploadedCount = 0.
C5_SecondRunUploadsNothing ==
    (main = "returned" /\ prev = "clean" /\ clean /\ ~expired) => result[1] = 0

\* C6: when the destination key of the downloaded file is absent from the
\* store and the existence query returns to should_upload_file, the decision
\* is "upload" and the loop goes on to the upload call for that same file.
C6_AbsentKeyUploads ==
    [][(/\ main = "decide"
        /\ CurrentKey \notin DOMAIN store
        /\ main' # "decide"
        /\ (syncer = "bls" => asked'[1] # "Exception"))
       => (main' = "upload" /\ idx' = idx /\ files' = files)]_vars

\* the file loop of BLSDataSyncer is at the upload call for a file whose key
\* the store does not hold, after an answered existence query
C6_Witness ==
    /\ main = "upload"
    /\ syncer = "bls"
    /\ CurrentKey \notin DOMAIN store
    /\ asked = <<"ok", "ok">>

\* C7: when a sync pass has returned, every file it left Uploaded or Skipped
\* has at its destination key content with the fingerprint of the bytes the
\* pass downloaded for it.
C7_StoredMatchesDownloaded ==
    main = "returned" =>
        \A i \in DOMAIN status :
            status[i] \in {"Uploaded", "Skipped"} =>
                /\ s3_key(files[i].name) \in DOMAIN store
                /\ get_file_hash(store[s3_key(files[i].name)])
                     = get_file_hash(Remote.bytes[files[i].url])

\* C8: when a directory call leaves its wait loop, the files of every child
\* that had completed by then are among the files it goes on to return.
C8_KeepsCompletedChildren ==
    [][\A p \in DOMAIN calls :
          (calls[p].pc = "await" /\ p \in DOMAIN calls' /\ calls'[p].pc = "exit")
          => \A k \in Children(p) :
                 calls[k].pc = "done" =>
                     \A i \in DOMAIN calls[k].result :
                         \E j \in DOMAIN calls'[p].files :
                             calls'[p].files[j] = calls[k].result[i]]_vars

\* C9: once the budget is exhausted, a directory call that has left its wait
\* loop is not held at the pool's exit by a child that has not finished.
C9_NoWaitAfterBudget ==
    (syncer = "lambda" /\ expired) =>
        \A p \in DOMAIN calls :
            calls[p].pc = "exit" =>
                \A k \in Children(p) : calls[k].pc = "done"

\* C10: with the budget exhausted, a call that passes its entry check returns
\* [] there, with no URL marked, no listing fetched and no call created; and
\* a call that leaves the link loop returns its files with no child created.
C10_NoWorkAfterBudget ==
    [][(syncer = "lambda" /\ expired) =>
          \A c \in DOMAIN calls \cap DOMAIN calls' :
              /\ (calls[c].pc = "entry" /\ calls'[c].pc # "entry") =>
                    /\ calls'[c].pc = "done"
                    /\ calls'[c].result = <<>>
                    /\ processed_urls' = processed_urls
                    /\ fetched' = fetched
                    /\ DOMAIN calls' = DOMAIN calls
              /\ (calls[c].pc = "parse" /\ calls'[c].pc # "parse") =>
                    /\ calls'[c].pc = "done"
                    /\ calls'[c].result = calls[c].files
                    /\ DOMAIN calls' = DOMAIN calls]_vars

\* budget exhausted: one child returned [] at its entry check, unvisited and
\* within max_depth, and one that had listed subdirectories below max_depth
\* returned without children
C10_Witness ==
    /\ syncer = "lambda"
    /\ expired
    /\ main = "discovering"
    /\ \E c \in DOMAIN calls :
         /\ c # Root
         /\ calls[c].pc = "done"
         /\ calls[c].listing = <<>>
         /\ calls[c].url \notin processed_urls
         /\ calls[c].depth <= max_depth
    /\ \E c \in DOMAIN calls :
         /\ calls[c].pc = "done"
         /\ calls[c].subdirs # <<>>
         /\ calls[c].depth < max_depth
         /\ calls[c].workers = 0
         /\ Children(c) = {}

\* C11: when the budget ran out before discovery returned, the list that
\* discovery returns holds every file that had been gathered by then.
C11_PartialResultKept ==
    (syncer = "lambda" /\ main = "discovered" /\ expired) =>
        found \subseteq {files[i].url : i \in DOMAIN files}

\* a finished call whose listing GET failed
FetchFailed(k) ==
    /\ calls[k].pc = "done"
    /\ calls[k].listing = <<>>
    /\ \E f \in fetched : f.call = k /\ f.url = calls[k].url

\* C12: when a directory call returns with budget left and the listing fetch
\* of one of its children had failed, that child returned [], every child's
\* URL has been taken for exploration, and the call's result holds every
\* child's files and one entry per file link of its own listing.
C12_FetchFailureIsolated ==
    [][\A p \in DOMAIN calls \cap DOMAIN calls' :
          (/\ calls[p].pc = "exit"
           /\ calls'[p].pc = "done"
           /\ syncer = "lambda" => ~expired
           /\ \E k \in Children(p) : FetchFailed(k))
          => /\ \A k \in Children(p) :
                  /\ FetchFailed(k) => calls[k].result = <<>>
                  /\ calls[k].url \in processed_urls
                  /\ \A i \in DOMAIN calls[k].result :
                        \E j \in DOMAIN calls'[p].result :
                            calls'[p].result[j] = calls[k].result[i]
             /\ \A i \in DOMAIN calls[p].listing :
                  is_valid_file(calls[p].listing[i]) =>
                      \E j \in DOMAIN calls'[p].result :
                          calls'[p].result[j] = FileInfo(calls[p], calls[p].listing[i])]_vars

\* the root has returned its own file and the file of a/ although the
\* listing fetch of the sibling linked as `a` failed
C12_Witness ==
    /\ site = 6
    /\ failures = 1
    /\ ~expired
    /\ main = "discovering"
    /\ calls[Root].pc = "done"
    /\ \E f \in fetched : f.url = <<"a">>
    /\ {<<"r", ".csv">>, <<"a", "/", "x", ".txt">>}
         \subseteq {calls[Root].result[i].url : i \in DOMAIN calls[Root].result}
    /\ <<"x", ".txt">> \notin {calls[Root].result[i].url : i \in DOMAIN calls[Root].result}

\* C13: on the remote whose root lists a/ and overview.txt and whose a/ lists
\* a.txt, a discovery without failed fetch and within budget returns exactly
\* the names overview.txt and a/a.txt and has explored 2 directories when
\* max_depth >= 1, exactly overview.txt and 1 directory when max_depth = 0;
\* the Lambda pass reports that number of directories.
C13_Scenario ==
    LET names == IF max_depth >= 1
                 THEN {<<"overview", ".txt">>, <<"a", "/", "a", ".txt">>}
                 ELSE {<<"overview", ".txt">>}
        directories == IF max_depth >= 1 THEN 2 ELSE 1
    IN (site = 1 /\ failures = 0 /\ ~expired) =>
        /\ main = "discovered" =>
              /\ {files[i].name : i \in DOMAIN files} = names
              /\ Len(files) = Cardinality(names)
              /\ Cardinality(processed_urls) = directories
              /\ syncer = "lambda" =>
                    Cardinality(discovered_directories) = directories
        /\ (main = "returned" /\ syncer = "lambda") =>
              result[3] = directories

\* the Lambda pass has returned on that remote with max_depth >= 1, having
\* processed both files and reporting 2 directories
C13_Witness ==
    /\ site = 1
    /\ syncer = "lambda"
    /\ max_depth >= 1
    /\ failures = 0
    /\ ~expired
    /\ main = "returned"
    /\ result[2] = 2
    /\ result[3] = 2

\* C14: two listing fetches of one run whose URLs differ at most by a
\* trailing slash are fetches of the same URL: a directory linked as `a` and
\* as `a/` is explored under one key.
C14_NormalizedOnce ==
    \A f, g \in fetched :
        rstrip_slash(f.url) = rstrip_slash(g.url) => f.url = g.url

\* C15: the list discovery returns has no two entries with the same url, and
\* has an entry for every url of the raw result of the top-level call (and
\* no other entry).
C15_UniqueByUrl ==
    [][(main = "discovering" /\ main' = "discovered") =>
          /\ \A i, j \in DOMAIN files' :
                files'[i].url = files'[j].url => i = j
          /\ \A i \in DOMAIN calls[Root].result :
                \E j \in DOMAIN files' : files'[j].url = calls[Root].result[i].url
          /\ \A j \in DOMAIN files' :
                \E i \in DOMAIN calls[Root].result :
                    files'[j] = calls[Root].result[i]]_vars

\* discovery returned one entry for a/x.txt after two calls had explored a/
\* and each had returned it
C15_Witness ==
    /\ main = "discovered"
    /\ site = 2
    /\ syncer = "bls"
    /\ failures = 0
    /\ <<"a", "/">> \in DOMAIN passes
    /\ passes[<<"a", "/">>] = 2
    /\ Len(files) = 1

\* C16: a discovery without failed fetch and within budget returns the same
\* (logical name, url) pairs as the complete, failure-free previous run did
\* on the same remote.
C16_NamesStable ==
    (main = "discovered" /\ prev = "clean" /\ failures = 0 /\ ~expired) =>
        Pairs(files) = prev_files

\* C17: when a pass has returned with budget left and some file failed (its
\* download, its upload, or an exception while it was processed), no file of
\* the slice the loop walks was left unprocessed.
C17_FailureDoesNotAbort ==
    (/\ main = "returned"
     /\ syncer = "lambda" => ~expired
     /\ \E i \in DOMAIN status : status[i] \in {"FailedDownload", "FailedUpload"})
    => \A j \in DOMAIN status :
          (syncer = "lambda" => j <= max_files_for_lambda)
          => status[j] # "Discovered"

\* the pass returned after the first file's download failed and the second
\* file was uploaded
C17_Witness ==
    /\ main = "returned"
    /\ Len(status) >= 2
    /\ status[1] = "FailedDownload"
    /\ status[2] = "Uploaded"

\* C18: when a store query of the decision for a file fails, the file is
\* marked failed there and then: no upload is attempted and it is not
\* classified as up to date.
C18_StoreFailureMarksFailed ==
    [][(/\ main = "decide"
        /\ main' # "decide"
        /\ asked'[1] # "ok" \/ asked'[2] # "ok")
       => (main' = "loop" /\ status'[idx] = "FailedUpload")]_vars

\* the only listing fetch of the run was the root's, and it failed
RootFetchFailed ==
    /\ failures >= 1
    /\ \A f \in fetched : f.url = base_url

\* C19: when the root listing could not be fetched, the summary the handler
\* returns has zero files and is marked as a failure: bls_sync.success is
\* false or the status code is not 200.
C19_RootFailureReported ==
    (main = "responded" /\ RootFetchFailed) =>
        /\ response.bls_sync.total_files = 0
        /\ ~response.bls_sync.success \/ response.statusCode # 200

\* C20: a link to an absolute URL outside base_url is skipped: no call holds
\* a file entry or a queued subdirectory whose url lies outside base_url.
C20_ExternalSkipped ==
    \A c \in DOMAIN calls :
        /\ \A i \in DOMAIN calls[c].files : ~is_external(calls[c].files[i].url)
        /\ \A i \in DOMAIN calls[c].subdirs : ~is_external(calls[c].subdirs[i].url)

\* hrefs of its listing that call c has classified so far
Classified(c) == {calls[c].listing[j] : j \in 1..(calls[c].i - 1)}

\* C21: a link that is not external yields a file entry exactly when its href
\* is not a parent/self reference and its final path segment ends with an
\* extension of the allow-list, compared case-insensitively; no other href
\* yields a file entry.
C21_FileByExtension ==
    \A c \in DOMAIN calls : \A h \in Classified(c) :
        LET seg == LastSegment(lower(h))
            parent_self == {<<"..", "/">>, <<"/">>, <<".", "/">>, <<".">>}
        IN ~is_external(h) =>
             ((\E i \in DOMAIN calls[c].files :
                   calls[c].files[i] = FileInfo(calls[c], h))
              <=> (/\ h \notin parent_self
                   /\ Len(seg) > 0
                   /\ Last(seg) \in valid_extensions))

\* C22: a classified href that is neither skipped (parent/self reference,
\* external link) nor a file is a directory exactly when it ends with "/", or
\* its final path segment contains no ".", or it is one of the known
\* directory-name literals.
C22_DirectoryByShape ==
    \A c \in DOMAIN calls : \A h \in Classified(c) :
        LET seg == LastSegment(h)
            parent_self == {<<"..", "/">>, <<"/">>, <<".", "/">>, <<".">>}
            literals == {<<"data">>, <<"series">>, <<"time">>, <<"Current">>}
        IN (h \notin parent_self /\ ~is_external(h) /\ ~is_valid_file(h)) =>
             (is_valid_directory(h)
              <=> \/ EndsWithSlash(h)
                  \/ \A i \in DOMAIN seg : seg[i] \notin DotTokens
                  \/ h \in literals)

\* C23: of the child traversals a directory call has dispatched, at most
\* min(max_workers, k) run at the same time, k being the number of its
\* enqueued subdirectories; at most min(max_workers, k, 3) in the Lambda
\* syncer.
C23_PoolBound ==
    \A p \in DOMAIN calls :
        LET k == Len(calls[p].subdirs)
            bound == IF syncer = "lambda"
                     THEN Min(Min(max_workers, k), 3)
                     ELSE Min(max_workers, k)
        IN Cardinality(Running(p)) <= bound

\* the Lambda pool of a call with four children, run with max_workers 4,
\* holds three running children while the fourth is still queued
C23_Witness ==
    /\ syncer = "lambda"
    /\ max_workers = 4
    /\ Root \in DOMAIN calls
    /\ Len(calls[Root].subdirs) = 4
    /\ Cardinality(Running(Root)) = 3
    /\ \E c \in Children(Root) : calls[c].pc = "queued"

\* C24: a child traversal exists only after its parent has fetched its
\* listing and classified every link of it.
C24_ChildAfterParse ==
    \A c \in DOMAIN calls :
        c # Root =>
            /\ calls[Parent(c)].pc \in {"await", "exit"}
            /\ calls[Parent(c)].listing = Remote.dirs[calls[Parent(c)].url]
            /\ calls[Parent(c)].i > Len(calls[Parent(c)].listing)

\* a child is running whose parent's listing has a link after the one that
\* enqueued it
C24_Witness ==
    \E c \in DOMAIN calls :
        /\ c # Root
        /\ calls[c].pc = "get"
        /\ Len(calls[Parent(c)].listing) >= 2
        /\ calls[Parent(c)].listing[1] = <<"a", "/">>
        /\ calls[c].url = <<"a", "/">>

\* C25: from the end of discovery to the end of the pass, no step changes
\* the visited set, the set of explored directories or the list of
\* discovered files: the per-file steps write to the store only.
C25_SyncFrame ==
    [][(main \in {"discovered", "loop", "download", "decide", "upload"}) =>
          (/\ processed_urls' = processed_urls
           /\ discovered_directories' = discovered_directories
           /\ files' = files)]_vars

\* a pass has ended after a download, a decision and an upload that wrote
\* to the store
C25_Witness ==
    /\ main = "returned"
    /\ processed_urls # {}
    /\ \E i \in DOMAIN status :
          /\ status[i] = "Uploaded"
          /\ s3_key(files[i].name) \in DOMAIN store

\* urls a directory listing links as directories, and as files
DirLinks(u) ==
    IF u \notin DOMAIN Remote.dirs THEN {}
    ELSE {urljoin(u, Remote.dirs[u][i]) :
            i \in {j \in DOMAIN Remote.dirs[u] :
                      /\ ~is_valid_file(Remote.dirs[u][j])
                      /\ is_valid_directory(Remote.dirs[u][j])}}

FileLinks(u) ==
    IF u \notin DOMAIN Remote.dirs THEN {}
    ELSE {urljoin(u, Remote.dirs[u][i]) :
            i \in {j \in DOMAIN Remote.dirs[u] : is_valid_file(Remote.dirs[u][j])}}

\* directories some chain of at most n directory links leads to from base_url
RECURSIVE Reach(_)
Reach(n) ==
    IF n = 0 THEN {base_url}
    ELSE Reach(n - 1) \cup UNION {DirLinks(u) : u \in Reach(n - 1)}

\* C29: a discovery without failed fetch and within budget returns every file
\* linked from a directory that some chain of at most max_depth directory
\* links leads to from the root.
C29_ReachableFilesFound ==
    (main = "discovered" /\ failures = 0 /\ ~expired) =>
        \A u \in Reach(max_depth) : \A f \in FileLinks(u) :
            \E i \in DOMAIN files : files[i].url = f

\* C26: the visited set is emptied when a discovery starts, and a discovery
\* without failed fetch and within budget returns the same set of file urls
\* as the complete, failure-free discovery before it on the same remote,
\* whether it runs on a new syncer object or on the object of the last run.
C26_VisitedScopedToRun ==
    /\ (main = "discovering" /\ fetched = {}) => processed_urls \subseteq {base_url}
    /\ (main = "discovered" /\ prev = "clean" /\ failures = 0 /\ ~expired) =>
          {files[i].url : i \in DOMAIN files} = {p[2] : p \in prev_files}

\* calls whose listing request is in flight
InFlight == {c \in DOMAIN calls : calls[c].pc = "get"}

\* C27: at every moment of a traversal the number of listing requests in
\* flight, over all recursion levels, is at most max_workers.
C27_GlobalRequestBound == Cardinality(InFlight) <= max_workers

\* url.startswith(self.base_url): a resolved url lies outside base_url when
\* it names another host, is relative to the host root, or kept a ".." that
\* climbs above base_url
UnderBase(url) ==
    url = <<>> \/ url[1] \notin {OtherToken, "/", ".."}

\* C28: every url whose listing is fetched starts with base_url.
C28_FetchesUnderBase == \A f \in fetched : UnderBase(f.url)

\* C30: a call that fails the depth check or the budget check at its entry
\* returns an empty result in that step, before the visited check: the
\* visited set is left as it was, so the url stays open to a later call.
C30_RejectedNotMarked ==
    [][\A c \in DOMAIN calls :
         (/\ calls[c].pc = "entry"
          /\ calls[c].depth > max_depth \/ ~check_execution_time
          /\ c \in DOMAIN calls'
          /\ calls'[c].pc # "entry")
         => (/\ calls'[c].pc = "done"
             /\ calls'[c].result = <<>>
             /\ processed_urls' = processed_urls
             /\ passes' = passes)]_vars

\* a child was turned away by the budget check: it has returned nothing and
\* its url is not in the visited set
C30_Witness ==
    /\ expired
    /\ \E c \in DOMAIN calls :
          /\ c # Root
          /\ calls[c].pc = "done"
          /\ calls[c].result = <<>>
          /\ calls[c].url \notin processed_urls
          /\ calls[c].url \in DOMAIN Remote.dirs

\* C31: in BLSDataSyncer.sync_files every file taken by the loop ends in one
\* outcome and is counted once: while the loop runs the four counters add up
\* to the number of files it has finished, and when the pass has returned
\* they add up to the number of discovered files, none being left without
\* an outcome.
C31_OutcomesPartition ==
    LET counted == successful_uploads + skipped_files + failed_downloads
                   + failed_uploads
    IN syncer = "bls" =>
         /\ main = "loop" => counted = idx - 1
         /\ main = "returned" =>
               /\ counted = Len(files)
               /\ \A i \in DOMAIN status : status[i] # "Discovered"

\* a pass of BLSDataSyncer has returned with one file skipped as up to date
\* and another whose download failed
C31_Witness ==
    /\ syncer = "bls"
    /\ main = "returned"
    /\ skipped_files >= 1
    /\ failed_downloads >= 1
    /\ Len(files) >= 2

ObjectAt(b, k) == IF k \in DOMAIN b THEN {b[k]} ELSE {}

AllDownloadable == \A i \in DOMAIN files : files[i].url \in DOMAIN Remote.bytes
AllSynced ==
    \A i \in DOMAIN files :
        /\ files[i].url \in DOMAIN Remote.bytes
        /\ ObjectAt(store, s3_key(files[i].name)) = {Remote.bytes[files[i].url]}

\* C34: under repeated runs against an unchanged remote, with no failed
\* request and a budget that lasts through discovery, a run that has
\* discovered files is followed by the return of a pass, its own or a later
\* run's, with every discovered file current at its destination key.
C34_EventuallySynced ==
    (main = "discovered" /\ files # <<>> /\ AllDownloadable)
        ~> (main = "returned" /\ files # <<>> /\ AllSynced)

\* C35: when the Lambda file loop is at its top and check_execution_time()
\* is false, no file is taken, downloaded or uploaded any more: the only
\* step of the pass is its return, with the uploads and started files
\* counted so far and the number of directories explored.
C35_LoopStopsOnBudget ==
    [][(syncer = "lambda" /\ main = "loop" /\ ~check_execution_time) =>
          (/\ main' \in {"loop", "returned"}
           /\ store' = store
           /\ main' = "returned" =>
                 result' = <<successful_uploads, processed_files,
                             Cardinality(discovered_directories)>>)]_vars

\* a Lambda pass returned on the budget after its first file, judged up to
\* date, leaving the second file untouched
C35_Witness ==
    /\ syncer = "lambda"
    /\ expired
    /\ main = "returned"
    /\ Len(status) = 2
    /\ status[1] = "Skipped"
    /\ status[2] = "Discovered"
    /\ result = <<0, 1, Cardinality(discovered_directories)>>

\* C36: no href of a listing is recorded both as a file and as a
\* subdirectory, and an href that passes the file test and the directory
\* test is recorded as a file and not enqueued.
C36_OneClassification ==
    \A c \in DOMAIN calls : \A h \in Classified(c) :
        LET as_file == \E i \in DOMAIN calls[c].files :
                           calls[c].files[i] = FileInfo(calls[c], h)
            as_dir == \E i \in DOMAIN calls[c].subdirs :
                          calls[c].subdirs[i] = SubdirInfo(calls[c], h)
        IN /\ ~(as_file /\ as_dir)
           /\ (is_valid_file(h) /\ is_valid_directory(h)) => (as_file /\ ~as_dir)

\* the Lambda syncer has classified pr.data/, which passes both tests, and
\* holds it as a file
C36_Witness ==
    \E c \in DOMAIN calls :
        /\ <<"pr", ".data", "/">> \in Classified(c)
        /\ is_valid_file(<<"pr", ".data", "/">>)
        /\ is_valid_directory(<<"pr", ".data", "/">>)
        /\ \E i \in DOMAIN calls[c].files :
              calls[c].files[i].url = <<"a", "/", "y", "/", "pr", ".data", "/">>

\* C37: when the handler has returned without an exception, the analytics
\* message was sent, and analytics_triggered is true, exactly when data was
\* updated in the invocation: a BLS file was uploaded or the population
\* fetch succeeded.
C37_AnalyticsWhenUpdated ==
    (main = "responded" /\ response.statusCode = 200) =>
        (response.analytics_triggered
         <=> (response.bls_sync.files_uploaded > 0 \/ response.population_fetch))

\* C38: fetch_population_data tries its sources in a fixed order.  The
\* calls it has made are the first ones of DataUSA, Census, mock data, in
\* that order; a source is called only after the one before it returned
\* nothing; the first source that returns data is the last one called,
\* and what it returned is what fetch_population_data returns
C38_SourcesInOrder ==
    LET order == <<"fetch_datausa_population_data",
                   "fetch_census_population_data", "generate_mock_data">>
        log == population.log
        n == Len(population.log)
    IN /\ n <= 3
       /\ \A i \in 1..n :
            /\ log[i].fn = order[i]
            /\ (i > 1) => (log[i - 1].ret.source = "None")
            /\ (log[i].ret.source # "None") =>
                  /\ i = n
                  /\ population.pc = "returned"
                  /\ population.data = log[i].ret
       /\ (population.pc = "census") => (n = 1)
       /\ (population.pc = "mock") => (n = 2)
       /\ (population.pc = "returned") =>
            /\ n > 0
            /\ population.data = log[n].ret
            /\ population.data.source =
                 <<"DataUSA API", "Census Bureau Population Estimates API",
                   "Mock Data (Testing)">>[n]

\* mock data was returned after DataUSA and the Census API both failed
C38_Witness ==
    /\ population.pc = "returned"
    /\ Len(population.log) = 3
    /\ population.data.source = "Mock Data (Testing)"
    /\ population.years.given

====
